---- MODULE Spec2Model ----
(***************************************************************************)
(* Variable resolution pass of ella (ella-passes/src/resolve.rs).          *)
(*                                                                         *)
(* The Resolver is a recursive tree walker.  Its recursion is modelled by  *)
(* an explicit stack of visitor frames: a construct with a body (function  *)
(* declaration, lambda, block, if/else, while) is one action for the part  *)
(* of its handler that runs before the body and one for the part that runs *)
(* after it; statements without a body are one action each.  The program   *)
(* being resolved is chosen nondeterministically, statement by statement,  *)
(* so every behaviour is the walk of one well-nested program.              *)
(*                                                                         *)
(* Rc<RefCell<Symbol>> cells live in the arena `symbols`; every table that *)
(* holds an Rc holds an arena index, so a mutation through one reference   *)
(* is seen through all of them.  AST node identities (the addresses of    *)
(* Stmt and Expr nodes) are numbers handed out in visiting order.          *)
(*                                                                         *)
(* The bytecode Chunk of the virtual machine (ella-vm/src/chunk.rs) is     *)
(* modelled next to it, with the variables code, lines and constants.      *)
(***************************************************************************)
EXTENDS Integers, Sequences, FiniteSets, TLC

VARIABLES
    symbols,                \* arena of Symbol cells
    symbol_table,           \* HashMap from Stmt address to Rc<RefCell<Symbol>>
    resolved_symbol_table,  \* HashMap from Expr address to ResolvedSymbol
    accessible_symbols,     \* Vec<Rc<RefCell<Symbol>>>
    function_scope_depths,  \* Vec<u32>
    current_func_offset,    \* i32
    function_upvalues,      \* Vec<Vec<ResolvedUpValue>>
    errors,                 \* source.errors
    next_stmt,              \* identity of the next declaration statement
    next_expr,              \* identity of the next identifier expression
    stack,                  \* pending visit_stmt / visit_expr calls
    unit,                   \* number of Resolvers constructed so far
    hist_decl,              \* history: how each Symbol cell was declared
    hist_use,               \* history: each identifier expression visited
    hist_bad_assigns,       \* history: assignments to a non-identifier visited
    hist_entry,             \* history: the Resolver on entry to each open construct
    code,                   \* Chunk: Vec<u8>
    lines,                  \* Chunk: Vec<usize>
    constants,              \* Chunk: ValueArray
    returned,               \* what the last add_constant returned, if any did
    panic                   \* message of the panic that ended the Chunk's user

resolver_vars ==
    <<symbols, symbol_table, resolved_symbol_table, accessible_symbols,
      function_scope_depths, current_func_offset, function_upvalues,
      errors, next_stmt, next_expr, stack, unit,
      hist_decl, hist_use, hist_bad_assigns, hist_entry>>

chunk_vars == <<code, lines, constants, returned, panic>>

vars == <<resolver_vars, chunk_vars>>

-----------------------------------------------------------------------------
\* Bounds of the model.
MaxSymbols == 4
MaxUses == 2
MaxFunctions == 3
MaxScopes == 1
MaxErrors == 2
MaxUnits == 2
MaxCode == 3
MaxVaried == 2

\* Identifiers the resolved programs use, and those their let-declarations,
\* function declarations, parameter lists and builtin tables declare.
Names == {"x", "f"}
LetNames == {"x"}
FnNames == {"f"}
ParamLists == {<<>>, <<"x">>, <<"f", "x">>}
LambdaParamLists == {<<>>, <<"x">>}
BuiltinLists == {<<"x">>, <<"f", "x">>}

Null == 0

Last(s) == s[Len(s)]
Front(s) == SubSeq(s, 1, Len(s) - 1)
SetLast(s, v) == [s EXCEPT ![Len(s)] = v]
MaxOf(S) == CHOOSE m \in S : \A k \in S : k <= m
Insert(m, k, v) == [z \in (DOMAIN m) \cup {k} |-> IF z = k THEN v ELSE m[z]]

-----------------------------------------------------------------------------
\* Expressions.
Lit == [kind |-> "Literal"]
Identifier(n) == [kind |-> "Identifier", ident |-> n]
Binary(l, o, r) == [kind |-> "Binary", lhs |-> l, op |-> o, rhs |-> r]

Atoms == {Lit} \cup {Identifier(n) : n \in Names}
\* Initializers of let-declarations and conditions of if and while.
SubExprs == {Lit, Identifier("x")}
Binaries ==
    {Binary(l, "Equals", Lit) : l \in SubExprs}
        \cup {Binary(Lit, o, Identifier("x")) : o \in {"Equals", "Plus"}}
\* Expressions of expression and return statements.
Exprs == {Identifier(n) : n \in Names} \cup Binaries

\* Number of identifier expressions in an expression.
Uses(e) ==
    IF e.kind = "Identifier" THEN 1
    ELSE IF e.kind = "Binary"
         THEN (IF e.lhs.kind = "Identifier" THEN 1 ELSE 0)
              + (IF e.rhs.kind = "Identifier" THEN 1 ELSE 0)
         ELSE 0

\* Number of diagnostics an expression can add at most.
MaxDiags(e) == Uses(e) + (IF e.kind = "Binary" THEN 1 ELSE 0)

-----------------------------------------------------------------------------
\* The Resolver as a record, so that the handlers compose.
Self ==
    [symbols |-> symbols,
     symbol_table |-> symbol_table,
     resolved_symbol_table |-> resolved_symbol_table,
     accessible_symbols |-> accessible_symbols,
     function_scope_depths |-> function_scope_depths,
     current_func_offset |-> current_func_offset,
     function_upvalues |-> function_upvalues,
     errors |-> errors,
     next_expr |-> next_expr]

Symbol(ident, depth, stmt) ==
    [ident |-> ident, scope_depth |-> depth, is_captured |-> FALSE,
     upvalues |-> <<>>, stmt |-> stmt]

ResolvedUpValue(is_local, index) == [is_local |-> is_local, index |-> index]

enter_scope(r) ==
    [r EXCEPT !.function_scope_depths = SetLast(@, Last(@) + 1)]

\* Mutant: the symbols of the scope just entered by the parent are dropped too.
exit_scope_strict(r) ==
    LET fsd == SetLast(r.function_scope_depths, Last(r.function_scope_depths) - 1)
    IN [r EXCEPT !.function_scope_depths = fsd,
                 !.accessible_symbols =
                     SelectSeq(@, LAMBDA s : r.symbols[s].scope_depth < Last(fsd))]

\* Mutant: the filter compares with the depth of the scope being left.
exit_scope_keeps(r) ==
    LET fsd == SetLast(r.function_scope_depths, Last(r.function_scope_depths) - 1)
    IN [r EXCEPT !.function_scope_depths = fsd,
                 !.accessible_symbols =
                     SelectSeq(@, LAMBDA s : r.symbols[s].scope_depth
                                                 <= Last(r.function_scope_depths))]

exit_scope(r) ==
    LET fsd == SetLast(r.function_scope_depths, Last(r.function_scope_depths) - 1)
    IN [r EXCEPT !.function_scope_depths = fsd,
                 !.accessible_symbols =
                     SelectSeq(@, LAMBDA s : r.symbols[s].scope_depth <= Last(fsd))]

\* Mutant: the new symbol goes to the front of accessible_symbols.
add_symbol_front(r, ident, stmt) ==
    LET cell == Len(r.symbols) + 1
        r1 == [r EXCEPT !.symbols =
                            Append(@, Symbol(ident, Last(r.function_scope_depths), stmt)),
                        !.accessible_symbols = <<cell>> \o @]
    IN IF stmt # Null
       THEN [r1 EXCEPT !.symbol_table = Insert(@, stmt, cell)]
       ELSE r1

add_symbol(r, ident, stmt) ==
    LET cell == Len(r.symbols) + 1
        r1 == [r EXCEPT !.symbols =
                            Append(@, Symbol(ident, Last(r.function_scope_depths), stmt)),
                        !.accessible_symbols = Append(@, cell)]
    IN IF stmt # Null
       THEN [r1 EXCEPT !.symbol_table = Insert(@, stmt, cell)]
       ELSE r1

\* Mutant: the comparison is `<=`, so depth 0 is no longer the global level.
find_function_scope_depth_le(r, scope_depth) ==
    LET below == {i \in 1..Len(r.function_scope_depths) :
                     r.function_scope_depths[i] <= scope_depth}
    IN IF below = {} THEN 0 ELSE MaxOf(below)

\* Mutant: function_scope_depths is scanned from the bottom, without rev().
find_function_scope_depth_forward(r, scope_depth) ==
    LET below == {i \in 1..Len(r.function_scope_depths) :
                     r.function_scope_depths[i] < scope_depth}
    IN IF below = {} THEN 0 ELSE CHOOSE m \in below : \A k \in below : m <= k

\* Rust index i of function_scope_depths is index i + 1 here, so `i + 1` of
\* the code is the index itself.
find_function_scope_depth(r, scope_depth) ==
    LET below == {i \in 1..Len(r.function_scope_depths) :
                     r.function_scope_depths[i] < scope_depth}
    IN IF below = {} THEN 0 ELSE MaxOf(below)

\* Mutant: no two depths are ever taken to be in the same function.
in_same_function_scope_never(r, first, second) == FALSE

in_same_function_scope(r, first, second) ==
    find_function_scope_depth(r, first) = find_function_scope_depth(r, second)

\* Mutant: the scan runs from the oldest symbol forward.
scan_accessible_symbols_forward(r, ident) ==
    LET hits == {i \in 1..Len(r.accessible_symbols) :
                    r.symbols[r.accessible_symbols[i]].ident = ident}
    IN IF hits = {} THEN 0 ELSE CHOOSE i \in hits : \A k \in hits : i <= k

\* The reverse scan of accessible_symbols: the position (from 1) of the first
\* symbol named `ident` met from the end, 0 when there is none.
scan_accessible_symbols(r, ident) ==
    LET hits == {i \in 1..Len(r.accessible_symbols) :
                    r.symbols[r.accessible_symbols[i]].ident = ident}
    IN IF hits = {} THEN 0 ELSE MaxOf(hits)

\* `scope_depth == symbol.borrow().scope_depth as usize + 1`: the loop's
\* function level (a Rust index) against the symbol's block depth.
upvalue_is_local(scope_depth, symbol) == scope_depth = symbol.scope_depth + 1

\* The index stored in a freshly threaded upvalue; i is the Rust index of the
\* symbol in accessible_symbols.
upvalue_index(is_local, i, prev_upvalue_index) ==
    IF is_local THEN i ELSE prev_upvalue_index

\* Mutant: a symbol that is already captured gets no further entries.
RECURSIVE thread_upvalue_dedup(_, _, _, _, _, _)
thread_upvalue_dedup(upvalues, symbol, i, scope_depth, hi, prev_upvalue_index) ==
    IF scope_depth > hi \/ symbol.is_captured THEN upvalues
    ELSE LET is_local == upvalue_is_local(scope_depth, symbol)
             pushed == [upvalues EXCEPT ![scope_depth + 1] =
                           Append(@, ResolvedUpValue(is_local,
                                        upvalue_index(is_local, i, prev_upvalue_index)))]
         IN thread_upvalue_dedup(pushed, symbol, i, scope_depth + 1, hi,
                                 Len(pushed[scope_depth + 1]) - 1)

\* The loop `for scope_depth in lo ..= hi` that threads the upvalue through
\* the enclosing functions; scope_depth, lo and hi are Rust indices into
\* function_upvalues, i is the Rust index of the symbol.
RECURSIVE thread_upvalue(_, _, _, _, _, _)
thread_upvalue(upvalues, symbol, i, scope_depth, hi, prev_upvalue_index) ==
    IF scope_depth > hi THEN upvalues
    ELSE LET is_local == upvalue_is_local(scope_depth, symbol)
             pushed == [upvalues EXCEPT ![scope_depth + 1] =
                           Append(@, ResolvedUpValue(is_local,
                                        upvalue_index(is_local, i, prev_upvalue_index)))]
         IN thread_upvalue(pushed, symbol, i, scope_depth + 1, hi,
                           Len(pushed[scope_depth + 1]) - 1)

\* Mutant: the position is not made relative to the function.
local_offset_absolute(r, i) == i

\* The offset of a local: `i - self.current_func_offset as usize`.
local_offset(r, i) == i - r.current_func_offset

NotFound(r) == [self |-> r, found |-> FALSE, offset |-> 0, symbol |-> Null]

SyntaxError(kind, ident) == [kind |-> kind, ident |-> ident]

resolve_symbol(r, ident) ==
    LET pos == scan_accessible_symbols(r, ident)
    IN IF pos = 0
       THEN NotFound([r EXCEPT !.errors =
                         Append(@, SyntaxError("cannot resolve symbol", ident))])
       ELSE
         LET i == pos - 1
             cell == r.accessible_symbols[pos]
             symbol == r.symbols[cell]
             top == Last(r.function_scope_depths)
         IN IF find_function_scope_depth(r, symbol.scope_depth) = 0
            THEN [self |-> r, found |-> TRUE, offset |-> i, symbol |-> cell]
            ELSE IF in_same_function_scope(r, symbol.scope_depth, top)
            THEN [self |-> r, found |-> TRUE, offset |-> local_offset(r, i),
                  symbol |-> cell]
            ELSE
              LET threaded ==
                      thread_upvalue(r.function_upvalues, symbol, i,
                                     find_function_scope_depth(r, symbol.scope_depth) + 1,
                                     find_function_scope_depth(r, top), 0)
              IN [self |-> [r EXCEPT !.symbols[cell].is_captured = TRUE,
                                     !.function_upvalues = threaded],
                  found |-> TRUE,
                  offset |-> Len(Last(threaded)) - 1,
                  symbol |-> cell]

ResolvedSymbol(offset, is_global, is_upvalue, symbol) ==
    [offset |-> offset, is_global |-> is_global, is_upvalue |-> is_upvalue,
     symbol |-> symbol]

\* Mutant: the captured flag set by resolve_symbol is lost.
visit_identifier_uncaptured(r, ident) ==
    LET res == resolve_symbol(r, ident)
        r1 == [res.self EXCEPT !.next_expr = @ + 1, !.symbols = r.symbols]
    IN IF res.found
       THEN LET depth == r1.symbols[res.symbol].scope_depth
            IN [r1 EXCEPT !.resolved_symbol_table =
                   Insert(@, r.next_expr,
                       ResolvedSymbol(res.offset,
                           find_function_scope_depth(r1, depth) = 0,
                           find_function_scope_depth(r1, Last(r1.function_scope_depths))
                               > find_function_scope_depth(r1, depth),
                           res.symbol))]
       ELSE r1

\* Mutant: a use that did not resolve still gets a table entry.
visit_identifier_always_inserts(r, ident) ==
    LET res == resolve_symbol(r, ident)
    IN [res.self EXCEPT !.next_expr = @ + 1,
                        !.resolved_symbol_table =
                            Insert(@, r.next_expr,
                                   ResolvedSymbol(res.offset, TRUE, FALSE,
                                       IF res.found THEN res.symbol ELSE 1))]

\* visit_expr of an Identifier; the expression's identity is next_expr.
visit_identifier(r, ident) ==
    LET res == resolve_symbol(r, ident)
        r1 == [res.self EXCEPT !.next_expr = @ + 1]
    IN IF res.found
       THEN LET depth == r1.symbols[res.symbol].scope_depth
            IN [r1 EXCEPT !.resolved_symbol_table =
                   Insert(@, r.next_expr,
                       ResolvedSymbol(res.offset,
                           find_function_scope_depth(r1, depth) = 0,
                           find_function_scope_depth(r1, Last(r1.function_scope_depths))
                               > find_function_scope_depth(r1, depth),
                           res.symbol))]
       ELSE r1

\* visit_expr of a Literal or an Identifier (walk_expr finds no children).
visit_atom(r, e) ==
    IF e.kind = "Identifier" THEN visit_identifier(r, e.ident) ELSE r

\* walk_expr of a Binary: the operands, left to right.
walk_binary(r, e) == visit_atom(visit_atom(r, e.lhs), e.rhs)

\* Mutant: the check does not look at the shape of the left operand.
check_assignment_target_any_lhs(r, e) ==
    IF e.op = "Equals"
    THEN [r EXCEPT !.errors =
             Append(@, SyntaxError("invalid left-hand side of assignment", ""))]
    ELSE r

\* The assignment target check of visit_expr.
check_assignment_target(r, e) ==
    IF e.op = "Equals" /\ e.lhs.kind # "Identifier"
    THEN [r EXCEPT !.errors =
             Append(@, SyntaxError("invalid left-hand side of assignment", ""))]
    ELSE r

visit_expr(r, e) ==
    IF e.kind = "Binary"
    THEN check_assignment_target(walk_binary(r, e), e)
    ELSE visit_atom(r, e)
-----------------------------------------------------------------------------
\* Visitor frames: one per visit_stmt / visit_expr call whose body is being
\* walked.  old_func_offset and stmt are the locals of that call; let_ident
\* and let_stmt are those of the LetDeclaration whose initializer a lambda is.
Frame(kind, old_func_offset, stmt, let_ident, let_stmt) ==
    [kind |-> kind, old_func_offset |-> old_func_offset, stmt |-> stmt,
     let_ident |-> let_ident, let_stmt |-> let_stmt]

ScopeFrame(kind) == Frame(kind, 0, Null, "", Null)

\* Symbols the pending calls will still create when they return.
RECURSIVE Reserved(_)
Reserved(st) ==
    IF st = <<>> THEN 0
    ELSE (IF Last(st).kind = "Lambda"
          THEN 1 + (IF Last(st).let_stmt # Null THEN 1 ELSE 0)
          ELSE 0) + Reserved(Front(st))

Room(n) == Len(symbols) + Reserved(stack) + n <= MaxSymbols
CanVisit(e) ==
    /\ next_expr - 1 + Uses(e) <= MaxUses
    /\ Len(errors) + MaxDiags(e) <= MaxErrors
IsFunctionFrame(f) == f.kind \in {"FnDeclaration", "Lambda"}
CanNestFunction == Len(SelectSeq(stack, IsFunctionFrame)) < MaxFunctions
CanNestScope ==
    Len(SelectSeq(stack, LAMBDA f : ~IsFunctionFrame(f))) < MaxScopes

Commit(r) ==
    /\ symbols' = r.symbols
    /\ symbol_table' = r.symbol_table
    /\ resolved_symbol_table' = r.resolved_symbol_table
    /\ accessible_symbols' = r.accessible_symbols
    /\ function_scope_depths' = r.function_scope_depths
    /\ current_func_offset' = r.current_func_offset
    /\ function_upvalues' = r.function_upvalues
    /\ errors' = r.errors
    /\ next_expr' = r.next_expr

-----------------------------------------------------------------------------
\* History variables.  They record the program walked so far as the parser
\* built it, independently of what the Resolver computes from it.

\* The function nesting level statements are being visited at: the number of
\* function and lambda bodies around the current statement.
Level == Len(SelectSeq(stack, IsFunctionFrame))

\* The slot the next declaration of the current function body takes: the
\* number of declarations of that body that are in scope.
NextSlot(acc) ==
    Cardinality({i \in 1..Len(acc) : hist_decl[acc[i]].level = Level})

Decl(kind, level, slot) == [kind |-> kind, level |-> level, slot |-> slot]

ParamDecls(params, level) ==
    [k \in 1..Len(params) |-> Decl("FnParam", level, k - 1)]

\* The identifier expressions of an expression, in source order.
Idents(e) ==
    IF e.kind = "Identifier" THEN <<e.ident>>
    ELSE IF e.kind = "Binary"
         THEN (IF e.lhs.kind = "Identifier" THEN <<e.lhs.ident>> ELSE <<>>)
              \o (IF e.rhs.kind = "Identifier" THEN <<e.rhs.ident>> ELSE <<>>)
         ELSE <<>>

IsBadAssign(e) ==
    e.kind = "Binary" /\ e.op = "Equals" /\ e.lhs.kind # "Identifier"

Visited(e) ==
    /\ hist_use' = hist_use \o [k \in 1..Len(Idents(e)) |->
                       [ident |-> Idents(e)[k], unit |-> unit]]
    /\ hist_bad_assigns' = hist_bad_assigns + (IF IsBadAssign(e) THEN 1 ELSE 0)

NoVisit == UNCHANGED <<hist_use, hist_bad_assigns>>

\* What the Resolver held when the handler of a construct with a body was
\* called; base is the length of accessible_symbols where the locals of a
\* function or lambda begin (0 for the other constructs).
Entered(base) ==
    [accessible_symbols |-> accessible_symbols,
     function_scope_depths |-> function_scope_depths,
     function_upvalues |-> Len(function_upvalues),
     current_func_offset |-> current_func_offset,
     base |-> base]

Enter(base) == hist_entry' = Append(hist_entry, Entered(base))
Leave == hist_entry' = Front(hist_entry)

-----------------------------------------------------------------------------
\* The part of the function / lambda handlers before the parameters.
enter_function(r) ==
    enter_scope(
        [r EXCEPT !.current_func_offset = Len(r.accessible_symbols),
                  !.function_upvalues = Append(@, <<>>),
                  !.function_scope_depths = Append(@, Last(@))])

\* `for param in params { self.visit_stmt(param) }`: the k-th parameter is
\* the FnParam statement first_stmt + k - 1.
RECURSIVE visit_params(_, _, _)
visit_params(r, params, first_stmt) ==
    IF params = <<>> THEN r
    ELSE visit_params(add_symbol(r, params[1], first_stmt), Tail(params),
                      first_stmt + 1)

Init ==
    /\ symbols = <<>>
    /\ symbol_table = <<>>
    /\ resolved_symbol_table = <<>>
    /\ accessible_symbols = <<>>
    /\ function_scope_depths = <<0>>
    /\ current_func_offset = 0
    /\ function_upvalues = << <<>> >>
    /\ errors = <<>>
    /\ next_stmt = 1
    /\ next_expr = 1
    /\ stack = <<>>
    /\ unit = 1
    /\ hist_decl = <<>>
    /\ hist_use = <<>>
    /\ hist_bad_assigns = 0
    /\ hist_entry = <<>>
    /\ code = <<>>
    /\ lines = <<>>
    /\ constants = <<>>
    /\ returned = <<>>
    /\ panic = ""

\* Mutant: the builtins are added last first.
RECURSIVE add_builtins_reversed(_, _)
add_builtins_reversed(r, idents) ==
    IF idents = <<>> THEN r
    ELSE add_symbol(add_builtins_reversed(r, Tail(idents)), idents[1], Null)

RECURSIVE add_builtins(_, _)
add_builtins(r, idents) ==
    IF idents = <<>> THEN r
    ELSE add_builtins(add_symbol(r, idents[1], Null), Tail(idents))

\* Resolver::resolve_builtin_vars, called before any user code is resolved.
ResolveBuiltinVars(idents) ==
    /\ stack = <<>>
    /\ next_stmt = 1 /\ next_expr = 1 /\ symbols = <<>>
    /\ Room(Len(idents))
    /\ Commit(add_builtins(Self, idents))
    /\ hist_decl' = hist_decl \o [k \in 1..Len(idents) |-> Decl("Builtin", 0, k - 1)]
    /\ NoVisit
    /\ UNCHANGED chunk_vars
    /\ UNCHANGED <<next_stmt, stack, unit, hist_entry>>

\* Mutant: the name is declared before the initializer is visited.
VisitLetDeclaration_name_first(ident, init) ==
    /\ Room(1)
    /\ CanVisit(init)
    /\ Commit(visit_expr(add_symbol(Self, ident, next_stmt), init))
    /\ next_stmt' = next_stmt + 1
    /\ hist_decl' = Append(hist_decl, Decl("Let", Level, NextSlot(accessible_symbols)))
    /\ Visited(init)
    /\ UNCHANGED chunk_vars
    /\ UNCHANGED <<stack, unit, hist_entry>>

\* visit_stmt of LetDeclaration whose initializer is no lambda.
VisitLetDeclaration(ident, init) ==
    /\ Room(1)
    /\ CanVisit(init)
    /\ Commit(add_symbol(visit_expr(Self, init), ident, next_stmt))
    /\ next_stmt' = next_stmt + 1
    /\ hist_decl' = Append(hist_decl, Decl("Let", Level, NextSlot(accessible_symbols)))
    /\ Visited(init)
    /\ UNCHANGED chunk_vars
    /\ UNCHANGED <<stack, unit, hist_entry>>

\* visit_stmt of ExprStmt and of ReturnStmt.
VisitExprStmt(e) ==
    /\ CanVisit(e)
    /\ Commit(visit_expr(Self, e))
    /\ Visited(e)
    /\ UNCHANGED chunk_vars
    /\ UNCHANGED <<next_stmt, stack, unit, hist_decl, hist_entry>>

\* Mutant: the function's own symbol is added inside the function scope.
declare_function_inside(r, ident, params, stmt) ==
    visit_params(add_symbol(enter_function(r), ident, stmt), params, stmt + 1)

\* FnDeclaration: the function's own symbol, then the function scope and
\* the parameters; stmt is the FnDeclaration statement.
declare_function(r, ident, params, stmt) ==
    visit_params(enter_function(add_symbol(r, ident, stmt)), params, stmt + 1)

\* visit_stmt of FnDeclaration up to the body.
BeginFnDeclaration(ident, params) ==
    /\ CanNestFunction
    /\ Room(1 + Len(params))
    /\ Commit(declare_function(Self, ident, params, next_stmt))
    /\ next_stmt' = next_stmt + 1 + Len(params)
    /\ stack' = Append(stack, Frame("FnDeclaration", current_func_offset, next_stmt,
                                    "", Null))
    /\ hist_decl' = Append(hist_decl,
                           Decl("FnDeclaration", Level, NextSlot(accessible_symbols)))
                        \o ParamDecls(params, Level + 1)
    /\ Enter(Len(accessible_symbols) + 1)
    /\ NoVisit
    /\ UNCHANGED chunk_vars
    /\ UNCHANGED unit

\* Mutant: the finished upvalue list is popped and thrown away.
patch_upvalues_dropped(r, stmt) ==
    [r EXCEPT !.function_upvalues = Front(@)]

\* Attaching the finished upvalue list to the function's Symbol.
patch_upvalues(r, stmt) ==
    [r EXCEPT !.symbols[r.symbol_table[stmt]].upvalues = Last(r.function_upvalues),
              !.function_upvalues = Front(@)]

\* Mutant: the scope-depth counter of the function is left on the stack.
keep_function_scope_depth(r) == r

pop_function_scope_depth(r) ==
    [r EXCEPT !.function_scope_depths = Front(@)]

\* visit_stmt of FnDeclaration after the body.
EndFnDeclaration ==
    /\ stack # <<>>
    /\ Last(stack).kind = "FnDeclaration"
    /\ LET f == Last(stack)
           left == exit_scope(Self)
           patched == pop_function_scope_depth(patch_upvalues(left, f.stmt))
       IN Commit([patched EXCEPT !.current_func_offset = f.old_func_offset])
    /\ stack' = Front(stack)
    /\ Leave
    /\ NoVisit
    /\ UNCHANGED chunk_vars
    /\ UNCHANGED <<next_stmt, unit, hist_decl>>

\* visit_expr of a Lambda up to the body.  The lambda is the expression of an
\* ExprStmt / ReturnStmt (let_stmt = Null) or the initializer of the
\* LetDeclaration let_stmt.
begin_lambda(params, inner_stmt, let_ident, let_stmt) ==
    /\ CanNestFunction
    /\ Commit(visit_params(enter_function(Self), params, inner_stmt + 1))
    /\ next_stmt' = inner_stmt + 1 + Len(params)
    /\ stack' = Append(stack, Frame("Lambda", current_func_offset, inner_stmt,
                                    let_ident, let_stmt))
    /\ hist_decl' = hist_decl \o ParamDecls(params, Level + 1)
    /\ Enter(Len(accessible_symbols))
    /\ NoVisit
    /\ UNCHANGED chunk_vars
    /\ UNCHANGED unit

BeginLambda(params) ==
    /\ Room(1 + Len(params))
    /\ begin_lambda(params, next_stmt, "", Null)

\* visit_stmt of LetDeclaration whose initializer is a lambda, up to the
\* lambda's body.
BeginLetLambda(ident, params) ==
    /\ Room(2 + Len(params))
    /\ begin_lambda(params, next_stmt + 1, ident, next_stmt)

\* The Symbol a lambda synthesizes once its body is walked.
insert_lambda_symbol(r, inner_stmt) ==
    LET cell == Len(r.symbols) + 1
        symbol == [Symbol("lambda", Last(r.function_scope_depths), inner_stmt)
                      EXCEPT !.upvalues = Last(r.function_upvalues)]
    IN [r EXCEPT !.symbols = Append(@, symbol),
                 !.symbol_table = Insert(@, inner_stmt, cell),
                 !.function_upvalues = Front(@)]

\* visit_expr of a Lambda after the body, then the rest of the statement
\* the lambda stands in.
EndLambda ==
    /\ stack # <<>>
    /\ Last(stack).kind = "Lambda"
    /\ LET f == Last(stack)
           left == pop_function_scope_depth(exit_scope(Self))
           done == [insert_lambda_symbol(left, f.stmt)
                       EXCEPT !.current_func_offset = f.old_func_offset]
           outer == Level - 1
           lambda == Decl("Lambda", outer, -1)
       IN IF f.let_stmt = Null
          THEN /\ Commit(done)
               /\ hist_decl' = Append(hist_decl, lambda)
          ELSE /\ Commit(add_symbol(done, f.let_ident, f.let_stmt))
               /\ hist_decl' = hist_decl \o
                      <<lambda,
                        Decl("Let", outer,
                             Cardinality({i \in 1..Len(done.accessible_symbols) :
                                 hist_decl[done.accessible_symbols[i]].level = outer}))>>
    /\ stack' = Front(stack)
    /\ Leave
    /\ NoVisit
    /\ UNCHANGED chunk_vars
    /\ UNCHANGED <<next_stmt, unit>>

\* visit_stmt of Block up to the body.
BeginBlock ==
    /\ CanNestScope
    /\ Commit(enter_scope(Self))
    /\ stack' = Append(stack, ScopeFrame("Block"))
    /\ Enter(0)
    /\ NoVisit
    /\ UNCHANGED chunk_vars
    /\ UNCHANGED <<next_stmt, unit, hist_decl>>

\* The exit_scope that ends a Block, an if or else block, or a while body.
end_scope(kinds) ==
    /\ stack # <<>>
    /\ Last(stack).kind \in kinds
    /\ Commit(exit_scope(Self))
    /\ stack' = Front(stack)
    /\ Leave
    /\ NoVisit
    /\ UNCHANGED chunk_vars
    /\ UNCHANGED <<next_stmt, unit, hist_decl>>

EndBlock == end_scope({"Block"})

\* visit_stmt of IfElseStmt up to the if block.
BeginIfElseStmt(condition) ==
    /\ CanNestScope
    /\ CanVisit(condition)
    /\ Commit(enter_scope(visit_expr(Self, condition)))
    /\ stack' = Append(stack, ScopeFrame("IfBlock"))
    /\ Enter(0)
    /\ Visited(condition)
    /\ UNCHANGED chunk_vars
    /\ UNCHANGED <<next_stmt, unit, hist_decl>>

\* IfElseStmt with an else block: between the two blocks.
BeginElseBlock ==
    /\ stack # <<>>
    /\ Last(stack).kind = "IfBlock"
    /\ Commit(enter_scope(exit_scope(Self)))
    /\ stack' = SetLast(stack, ScopeFrame("ElseBlock"))
    /\ hist_entry' = SetLast(hist_entry,
           [Last(hist_entry) EXCEPT !.accessible_symbols =
                                        exit_scope(Self).accessible_symbols])
    /\ NoVisit
    /\ UNCHANGED chunk_vars
    /\ UNCHANGED <<next_stmt, unit, hist_decl>>

\* IfElseStmt: after its last block.
EndIfElseStmt == end_scope({"IfBlock", "ElseBlock"})

\* visit_stmt of WhileStmt up to the body.
BeginWhileStmt(condition) ==
    /\ CanNestScope
    /\ CanVisit(condition)
    /\ Commit(enter_scope(visit_expr(Self, condition)))
    /\ stack' = Append(stack, ScopeFrame("WhileBody"))
    /\ Enter(0)
    /\ Visited(condition)
    /\ UNCHANGED chunk_vars
    /\ UNCHANGED <<next_stmt, unit, hist_decl>>

EndWhileStmt == end_scope({"WhileBody"})

\* into_resolve_result at the end of a top-level unit, then
\* new_with_existing_resolve_result for the next one, with its own Source.
NewWithExistingResolveResult ==
    /\ stack = <<>>
    /\ unit < MaxUnits
    /\ unit' = unit + 1
    /\ function_scope_depths' = <<0>>
    /\ current_func_offset' = 0
    /\ function_upvalues' = << <<>> >>
    /\ errors' = <<>>
    /\ UNCHANGED <<symbols, symbol_table, resolved_symbol_table, accessible_symbols,
                   next_stmt, next_expr, stack, hist_decl, hist_use,
                   hist_bad_assigns, hist_entry>>
    /\ UNCHANGED chunk_vars

-----------------------------------------------------------------------------
\* The Chunk.

\* Number of values of a u8.
U8 == 256

\* `n as u8` of a usize.
as_u8(n) == n % U8

\* OpCode as its discriminant; to_byte_code is `*self as u8`.
Ldc == 0
Ret == 1
OpCodes == {Ldc, Ret}
to_byte_code(opcode) == as_u8(opcode)

\* Source lines and constant values the callers pass.
Lines == {1, 2}
Values == {0, 1}

\* debug_assert_eq!(self.code.len(), self.lines.len()) of a debug build.
debug_assert_eq(c) ==
    IF Len(c.code) = Len(c.lines) THEN c
    ELSE [c EXCEPT !.panic = "assertion failed"]

TheChunk ==
    [code |-> code, lines |-> lines, constants |-> constants,
     returned |-> returned, panic |-> panic]

write_chunk(c, opcode, line) ==
    LET checked == debug_assert_eq(c)
    IN IF checked.panic # "" THEN checked
       ELSE debug_assert_eq([checked EXCEPT
                !.code = Append(@, to_byte_code(opcode)),
                !.lines = Append(@, line)])

\* Mutant: the index is truncated to a byte without the width check.
add_constant_truncating(c, value) ==
    LET pushed == Append(c.constants, value)
        loc == Len(pushed) - 1
    IN [c EXCEPT !.constants = pushed, !.returned = <<as_u8(loc)>>]

add_constant(c, value) ==
    LET pushed == Append(c.constants, value)
        loc == Len(pushed) - 1
    IN IF as_u8(loc) # loc
       THEN [c EXCEPT !.constants = pushed,
                      !.panic = "not yet implemented: load constant wide"]
       ELSE [c EXCEPT !.constants = pushed, !.returned = <<as_u8(loc)>>]

CommitChunk(c) ==
    /\ code' = c.code
    /\ lines' = c.lines
    /\ constants' = c.constants
    /\ returned' = c.returned
    /\ panic' = c.panic
    /\ UNCHANGED resolver_vars

\* Chunk::write_chunk.
WriteChunk(opcode, line) ==
    /\ panic = ""
    /\ Len(code) < MaxCode
    /\ CommitChunk(write_chunk(TheChunk, opcode, line))

\* Chunk::add_constant; the values vary among the first constants only.
AddConstant(value) ==
    /\ panic = ""
    /\ value = 0 \/ Len(constants) < MaxVaried
    /\ CommitChunk(add_constant(TheChunk, value))

-----------------------------------------------------------------------------
\* Specifications.  Each resolves the programs of one sub-language, so that
\* every one of them can be explored exhaustively within the bounds.

Uses1 == {Identifier(n) : n \in Names}

\* Declarations, identifier uses, named functions, lambdas and blocks.
Next ==
    \/ \E idents \in BuiltinLists : ResolveBuiltinVars(idents)
    \/ \E ident \in LetNames, init \in SubExprs : VisitLetDeclaration(ident, init)
    \/ \E e \in Uses1 : VisitExprStmt(e)
    \/ \E ident \in FnNames, params \in ParamLists : BeginFnDeclaration(ident, params)
    \/ EndFnDeclaration
    \/ \E params \in LambdaParamLists : BeginLambda(params)
    \/ \E ident \in LetNames, params \in LambdaParamLists : BeginLetLambda(ident, params)
    \/ EndLambda
    \/ BeginBlock
    \/ EndBlock

Spec == Init /\ [][Next]_vars

\* Several top-level units resolved one after the other, each by a Resolver
\* built from the ResolveResult of the one before.
NextRepl ==
    \/ \E idents \in BuiltinLists : ResolveBuiltinVars(idents)
    \/ \E ident \in LetNames, init \in SubExprs : VisitLetDeclaration(ident, init)
    \/ \E e \in Uses1 : VisitExprStmt(e)
    \/ \E ident \in FnNames, params \in ParamLists : BeginFnDeclaration(ident, params)
    \/ EndFnDeclaration
    \/ BeginBlock
    \/ EndBlock
    \/ NewWithExistingResolveResult

SpecRepl == Init /\ [][NextRepl]_vars

\* Expression statements with binary expressions, assignments among them.
NextExpr ==
    \/ \E ident \in LetNames, init \in SubExprs : VisitLetDeclaration(ident, init)
    \/ \E e \in Exprs : VisitExprStmt(e)
    \/ \E ident \in FnNames, params \in ParamLists : BeginFnDeclaration(ident, params)
    \/ EndFnDeclaration
    \/ BeginBlock
    \/ EndBlock

SpecExpr == Init /\ [][NextExpr]_vars

\* if / else and while statements.
NextControl ==
    \/ \E ident \in LetNames, init \in SubExprs : VisitLetDeclaration(ident, init)
    \/ \E e \in Uses1 : VisitExprStmt(e)
    \/ \E ident \in FnNames, params \in ParamLists : BeginFnDeclaration(ident, params)
    \/ EndFnDeclaration
    \/ \E condition \in SubExprs : BeginIfElseStmt(condition)
    \/ BeginElseBlock
    \/ EndIfElseStmt
    \/ \E condition \in SubExprs : BeginWhileStmt(condition)
    \/ EndWhileStmt

SpecControl == Init /\ [][NextControl]_vars

\* Every construct with a body: blocks, if / else, while, named functions
\* and lambdas.
NextScopes ==
    \/ \E ident \in LetNames : VisitLetDeclaration(ident, Lit)
    \/ VisitExprStmt(Identifier("x"))
    \/ \E ident \in FnNames, params \in ParamLists : BeginFnDeclaration(ident, params)
    \/ EndFnDeclaration
    \/ \E params \in LambdaParamLists : BeginLambda(params)
    \/ EndLambda
    \/ BeginBlock
    \/ EndBlock
    \/ BeginIfElseStmt(Lit)
    \/ BeginElseBlock
    \/ EndIfElseStmt
    \/ BeginWhileStmt(Lit)
    \/ EndWhileStmt

SpecScopes == Init /\ [][NextScopes]_vars

\* Programs in which x is used in the initializers of let-declarations only.
NextLet ==
    \/ \E ident \in LetNames, init \in SubExprs : VisitLetDeclaration(ident, init)
    \/ VisitExprStmt(Identifier("f"))
    \/ \E ident \in FnNames, params \in ParamLists : BeginFnDeclaration(ident, params)
    \/ EndFnDeclaration
    \/ BeginBlock
    \/ EndBlock

SpecLet == Init /\ [][NextLet]_vars

\* A Chunk written to by its users.
NextChunk ==
    \/ \E opcode \in OpCodes, line \in Lines : WriteChunk(opcode, line)
    \/ \E value \in Values : AddConstant(value)

SpecChunk == Init /\ [][NextChunk]_vars

-----------------------------------------------------------------------------
\* Vocabulary of the properties.

\* The identifier expressions the step resolved.
NewUses == (DOMAIN resolved_symbol_table') \ (DOMAIN resolved_symbol_table)

\* Positions (from 1) of the accessible symbols named n.
Declarations(n) ==
    {i \in 1..Len(accessible_symbols) : symbols[accessible_symbols[i]].ident = n}

\* The position (from 1) of cell s in accessible_symbols, 0 when it is not
\* accessible.
PositionOf(s) ==
    IF \E i \in 1..Len(accessible_symbols) : accessible_symbols[i] = s
    THEN CHOOSE i \in 1..Len(accessible_symbols) : accessible_symbols[i] = s
    ELSE 0

Accessible(s) == PositionOf(s) # 0

\* C1: every identifier use resolves to the latest accessible declaration of
\* its name: the symbol is accessible, carries the name, and no symbol
\* declared after it and still accessible carries it.
C1_Shadowing ==
    [][\A e \in NewUses :
         LET s == resolved_symbol_table'[e].symbol
             n == hist_use'[e].ident
         IN /\ Accessible(s)
            /\ symbols[s].ident = n
            /\ \A i \in Declarations(n) : i <= PositionOf(s)]_vars

\* C1 witness: `let x; { let x; use(x); } use(x);` has been resolved: the
\* first use went to the inner declaration, the use after the block to the
\* outer one.
C1_Witness ==
    /\ stack = <<>>
    /\ \E e1, e2 \in DOMAIN resolved_symbol_table :
         LET s1 == resolved_symbol_table[e1].symbol
             s2 == resolved_symbol_table[e2].symbol
         IN /\ e1 < e2
            /\ s2 < s1
            /\ symbols[s1].ident = symbols[s2].ident
            /\ hist_decl[s1].kind = "Let" /\ hist_decl[s2].kind = "Let"
            /\ hist_decl[s1].level = 0 /\ hist_decl[s2].level = 0
            /\ symbols[s1].scope_depth = 1 /\ symbols[s2].scope_depth = 0
            /\ ~Accessible(s1) /\ Accessible(s2)

\* The frames of the functions around the current statement, outermost
\* first; the k-th is the body of function nesting level k.
FunctionFrames == SelectSeq(stack, IsFunctionFrame)

\* No block, if, else or while scope is open anywhere.
NoScopeOpen == \A k \in 1..Len(stack) : IsFunctionFrame(stack[k])

\* Position in the stack of the frame of function nesting level k.
FramePosition(k) ==
    CHOOSE p \in 1..Len(stack) :
        /\ IsFunctionFrame(stack[p])
        /\ Len(SelectSeq(SubSeq(stack, 1, p), IsFunctionFrame)) = k

\* The upvalue list under construction of function nesting level k (a Rust
\* index into function_upvalues), before and after the step.
UpvaluesOf(k) == function_upvalues[k + 1]
UpvaluesAfter(k) == function_upvalues'[k + 1]

\* The step appended exactly `entry` to the list of level k.
Appended(k, entry) == UpvaluesAfter(k) = Append(UpvaluesOf(k), entry)

\* The step appended one entry to the list of level k.
AppendedOne(k) ==
    /\ Len(UpvaluesAfter(k)) = Len(UpvaluesOf(k)) + 1
    /\ SubSeq(UpvaluesAfter(k), 1, Len(UpvaluesOf(k))) = UpvaluesOf(k)

\* C2: single-hop capture.  A parameter of a top-level function `outer`, used
\* in a named function `inner` declared directly in outer's body, resolves
\* as an upvalue; inner's list gets exactly one entry, local, whose index is
\* the parameter's frame-relative slot in outer; the offset is that entry's
\* index in inner's list.
C2_SingleHopCapture ==
    [][\A e \in NewUses :
         LET rs == resolved_symbol_table'[e]
             d == hist_decl[rs.symbol]
         IN (/\ d.kind = "FnParam"
             /\ d.level = 1
             /\ Level = 2
             /\ NoScopeOpen
             /\ Last(stack).kind = "FnDeclaration")
            => /\ rs.is_upvalue
               /\ ~rs.is_global
               /\ Appended(2, ResolvedUpValue(TRUE, d.slot))
               /\ rs.offset = Len(UpvaluesAfter(2)) - 1]_vars

\* The chain the claims describe for a symbol of level `la` used at level
\* `lc`: one entry more at every level la + 1 .. lc and no change elsewhere;
\* the entry of level la + 1 is local, every deeper entry is not local and
\* points at the entry just appended one level further out.
Chained(la, lc) ==
    /\ Len(function_upvalues') = Len(function_upvalues)
    /\ \A k \in 0..la : UpvaluesAfter(k) = UpvaluesOf(k)
    /\ \A k \in (la + 1)..lc :
         /\ AppendedOne(k)
         /\ LET entry == Last(UpvaluesAfter(k))
            IN IF k = la + 1
               THEN entry.is_local
               ELSE /\ ~entry.is_local
                    /\ entry.index = Len(UpvaluesAfter(k - 1)) - 1

\* C3: multi-hop capture.  A parameter of a function a, used two or more
\* function levels below a, the functions in between being declared directly
\* in each other's bodies, threads one entry through every level below a and
\* resolves to the last entry of the current function's list.
C3_MultiHopCapture ==
    [][\A e \in NewUses :
         LET rs == resolved_symbol_table'[e]
             d == hist_decl[rs.symbol]
         IN (/\ d.kind = "FnParam"
             /\ Level >= d.level + 2
             /\ \A p \in FramePosition(d.level)..Len(stack) :
                    IsFunctionFrame(stack[p]))
            => /\ Chained(d.level, Level)
               /\ rs.offset = Len(UpvaluesAfter(Level)) - 1]_vars

\* C4: for every upvalue resolution, whatever blocks surround the captured
\* declaration or the nested functions, the entry of the level immediately
\* inside the declaring function is the only local one and the deeper
\* entries are chained.
C4_LocalOnlyAtFirstLevel ==
    [][\A e \in NewUses :
         LET d == hist_decl[resolved_symbol_table'[e].symbol]
         IN (d.level >= 1 /\ d.level < Level) => Chained(d.level, Level)]_vars

\* C5: a symbol declared at the outermost function level resolves as a
\* global at its position in accessible_symbols, from any depth; no upvalue
\* is threaded and the symbol is not marked captured.
C5_GlobalResolution ==
    [][\A e \in NewUses :
         LET rs == resolved_symbol_table'[e]
         IN hist_decl[rs.symbol].level = 0
            => /\ rs.is_global
               /\ rs.offset = PositionOf(rs.symbol) - 1
               /\ function_upvalues' = function_upvalues
               /\ ~symbols'[rs.symbol].is_captured]_vars

\* C5 witness: two functions deep, a use has resolved as a global to the
\* outermost function's own symbol, so it was made inside that function.
C5_Witness ==
    /\ Level >= 2
    /\ stack[1].kind = "FnDeclaration"
    /\ \E e \in DOMAIN resolved_symbol_table :
         /\ resolved_symbol_table[e].is_global
         /\ resolved_symbol_table[e].symbol = symbol_table[stack[1].stmt]
         /\ resolved_symbol_table[e].offset >= 1

\* C6: a symbol declared in the function or lambda the use is in resolves as
\* a local, neither global nor upvalue, at its position minus
\* current_func_offset; the offset is never negative and is the symbol's
\* slot: N for the N-th parameter, then the body's locals in order.
C6_LocalResolution ==
    [][\A e \in NewUses :
         LET rs == resolved_symbol_table'[e]
             d == hist_decl[rs.symbol]
         IN (d.level = Level /\ Level >= 1)
            => /\ ~rs.is_global
               /\ ~rs.is_upvalue
               /\ rs.offset = PositionOf(rs.symbol) - 1 - current_func_offset
               /\ rs.offset >= 0
               /\ rs.offset = d.slot]_vars

\* C6 witness: in a lambda nested in a function, a use has resolved to a
\* local declared after the lambda's parameter.
C6_Witness ==
    /\ Level >= 2
    /\ Last(FunctionFrames).kind = "Lambda"
    /\ \E e \in DOMAIN resolved_symbol_table :
         LET rs == resolved_symbol_table[e]
         IN /\ ~rs.is_global /\ ~rs.is_upvalue
            /\ hist_decl[rs.symbol].kind = "Let"
            /\ hist_decl[rs.symbol].level = Level
            /\ rs.offset = 1

\* C7: global slot stability.  Every use that resolved as a global, in
\* whatever unit, has the offset the symbol got when it was declared; an
\* accessible global sits at that slot whatever was declared, or declared and
\* dropped, after it; and between statements every top-level declaration
\* made outside any block is still accessible.
C7_GlobalSlotStability ==
    /\ \A e \in DOMAIN resolved_symbol_table :
         resolved_symbol_table[e].is_global
            => resolved_symbol_table[e].offset
                   = hist_decl[resolved_symbol_table[e].symbol].slot
    /\ \A p \in 1..Len(accessible_symbols) :
         hist_decl[accessible_symbols[p]].level = 0
            => hist_decl[accessible_symbols[p]].slot = p - 1
    /\ stack = <<>>
         => \A s \in 1..Len(symbols) :
              (hist_decl[s].level = 0 /\ symbols[s].scope_depth = 0)
                 => Accessible(s)

\* C7 witness: a global that is not the first one was used in the unit that
\* declares it and again in the next unit, and a later global was declared
\* in between.
C7_Witness ==
    /\ stack = <<>>
    /\ \E e1, e2 \in DOMAIN resolved_symbol_table :
         LET s == resolved_symbol_table[e1].symbol
         IN /\ resolved_symbol_table[e2].symbol = s
            /\ resolved_symbol_table[e1].is_global
            /\ resolved_symbol_table[e2].is_global
            /\ hist_use[e1].unit = 1
            /\ hist_use[e2].unit = 2
            /\ hist_decl[s].kind = "Let"
            /\ resolved_symbol_table[e1].offset >= 1
            /\ Len(symbols) > s

\* The identifier use the step made, if it made one: expression e, name n.
UsedNow == Len(hist_use') = Len(hist_use) + 1
UsedExpr == Len(hist_use')
UsedName == hist_use'[Len(hist_use')].ident

\* C8: a use of a name with no accessible symbol adds exactly one
\* unresolved-symbol diagnostic, gets no table entry and changes nothing
\* else: the symbols, their captured flags, the declaration table, the
\* upvalue lists and the scope depths stay as they are (a let whose
\* initializer is the use then declares its own name, and nothing more).
C8_UnresolvedIdentifier ==
    [][(UsedNow /\ Declarations(UsedName) = {})
         => /\ errors' = Append(errors, SyntaxError("cannot resolve symbol", UsedName))
            /\ resolved_symbol_table' = resolved_symbol_table
            /\ function_upvalues' = function_upvalues
            /\ function_scope_depths' = function_scope_depths
            /\ current_func_offset' = current_func_offset
            /\ SubSeq(symbols', 1, Len(symbols)) = symbols
            /\ SubSeq(accessible_symbols', 1, Len(accessible_symbols))
                   = accessible_symbols
            /\ \A st \in DOMAIN symbol_table : symbol_table'[st] = symbol_table[st]
            /\ hist_decl' = hist_decl
                 => UNCHANGED <<symbols, accessible_symbols, symbol_table>>]_vars

\* C8 witness: the first use did not resolve and the second one did.
C8_Witness ==
    /\ Len(hist_use) = 2
    /\ errors = <<SyntaxError("cannot resolve symbol", hist_use[1].ident)>>
    /\ DOMAIN resolved_symbol_table = {2}

\* The invalid-assignment-target diagnostics registered so far.
InvalidTargets(errs) ==
    Len(SelectSeq(errs, LAMBDA d : d.kind = "invalid left-hand side of assignment"))

\* C9: an assignment whose left operand is not an identifier registers
\* exactly one invalid-assignment-target diagnostic and any other expression
\* registers none; the operands are walked all the same, and the resolver is
\* left exactly as the walk of the operands alone leaves it.
C9_InvalidAssignmentTarget ==
    [][/\ hist_bad_assigns' = hist_bad_assigns
            => InvalidTargets(errors') = InvalidTargets(errors)
       /\ hist_bad_assigns' # hist_bad_assigns
            => LET walked == IF UsedNow THEN visit_identifier(Self, UsedName)
                             ELSE Self
               IN /\ hist_bad_assigns' = hist_bad_assigns + 1
                  /\ errors' = Append(walked.errors,
                         SyntaxError("invalid left-hand side of assignment", ""))
                  /\ InvalidTargets(errors') = InvalidTargets(errors) + 1
                  /\ symbols' = walked.symbols
                  /\ symbol_table' = walked.symbol_table
                  /\ resolved_symbol_table' = walked.resolved_symbol_table
                  /\ accessible_symbols' = walked.accessible_symbols
                  /\ function_scope_depths' = walked.function_scope_depths
                  /\ function_upvalues' = walked.function_upvalues
                  /\ current_func_offset' = walked.current_func_offset
                  /\ next_expr' = walked.next_expr]_vars

\* C9 witness: one bad assignment has registered the only diagnostic and
\* both identifier uses of the program have resolved.
C9_Witness ==
    /\ hist_bad_assigns = 1
    /\ InvalidTargets(errors) = 1
    /\ Len(errors) = 1
    /\ Len(hist_use) = 2
    /\ DOMAIN resolved_symbol_table = {1, 2}

\* The symbol of the named function whose body frame f is.
FunctionSymbol(f) == symbol_table[f.stmt]

\* C10: while a named function's body is walked its symbol is accessible, a
\* use of its name there resolves to it without a diagnostic unless a later
\* declaration of the name shadows it, and when the body is left the symbol
\* is the last accessible one.
C10_SelfRecursion ==
    [][/\ \A k \in 1..Len(stack) :
            stack[k].kind = "FnDeclaration"
               => LET s == FunctionSymbol(stack[k])
                  IN /\ Accessible(s)
                     /\ (/\ UsedNow
                         /\ UsedName = symbols[s].ident
                         /\ \A i \in Declarations(UsedName) : i <= PositionOf(s))
                        => /\ UsedExpr \in DOMAIN resolved_symbol_table'
                           /\ resolved_symbol_table'[UsedExpr].symbol = s
                           /\ errors' = errors
       /\ (/\ stack # <<>>
           /\ Last(stack).kind = "FnDeclaration"
           /\ stack' = Front(stack))
          => /\ accessible_symbols' # <<>>
             /\ Last(accessible_symbols') = FunctionSymbol(Last(stack))]_vars

\* C10 witness: in the body of a function nested in another function, a use
\* has resolved to the inner function's own symbol.
C10_Witness ==
    /\ Len(stack) = 2
    /\ stack[2].kind = "FnDeclaration"
    /\ \E e \in DOMAIN resolved_symbol_table :
         /\ resolved_symbol_table[e].symbol = FunctionSymbol(stack[2])
         /\ ~resolved_symbol_table[e].is_global

\* The step returns from the handler of the construct on top of the stack.
Leaving == Len(stack') < Len(stack)

\* The step goes from the if block of an IfElseStmt to its else block.
IfToElse ==
    /\ stack # <<>>
    /\ Last(stack).kind = "IfBlock"
    /\ Len(stack') = Len(stack)
    /\ Last(stack').kind = "ElseBlock"

\* C11: when a block, an if or else block, a while body, a function body or
\* a lambda body has been visited, accessible_symbols is the sequence it
\* was on entry (followed by the function's own symbol after a named
\* function, by the declared name after a let whose initializer the lambda
\* is); and no step removes or replaces an entry of the declaration table.
C11_ScopeExit ==
    [][/\ Leaving
            => LET f == Last(stack)
                   entry == Last(hist_entry).accessible_symbols
               IN accessible_symbols' =
                      IF f.kind = "FnDeclaration"
                      THEN Append(entry, FunctionSymbol(f))
                      ELSE IF f.kind = "Lambda" /\ f.let_stmt # Null
                           THEN Append(entry, symbol_table'[f.let_stmt])
                           ELSE entry
       /\ IfToElse => accessible_symbols' = Last(hist_entry).accessible_symbols
       /\ \A st \in DOMAIN symbol_table :
            /\ st \in DOMAIN symbol_table'
            /\ symbol_table'[st] = symbol_table[st]]_vars

\* C11 witness: the walk is over, a let made inside some construct is in the
\* declaration table but no longer accessible, a lambda has been visited, and
\* a use of the let's name made outside did not resolve.
C11_Witness ==
    /\ stack = <<>>
    /\ accessible_symbols = <<>>
    /\ errors = <<SyntaxError("cannot resolve symbol", "x")>>
    /\ \E s \in 1..Len(symbols) : hist_decl[s].kind = "Lambda"
    /\ \E s \in 1..Len(symbols) :
         /\ hist_decl[s].kind = "Let"
         /\ symbols[s].ident = "x"
         /\ symbols[s].stmt \in DOMAIN symbol_table
         /\ symbol_table[symbols[s].stmt] = s

\* C12: a symbol is created with captured = false; the flag becomes true
\* exactly when a use resolves to the symbol from a function nested strictly
\* inside the function that declares it (globals excepted: they are not
\* captured), and it is never reset.
C12_CapturedFlag ==
    [][/\ \A s \in (Len(symbols) + 1)..Len(symbols') : ~symbols'[s].is_captured
       /\ \A s \in 1..Len(symbols) :
            symbols'[s].is_captured
               <=> \/ symbols[s].is_captured
                   \/ \E e \in NewUses :
                        /\ resolved_symbol_table'[e].symbol = s
                        /\ hist_decl[s].level >= 1
                        /\ hist_decl[s].level < Level]_vars

\* C12 witness: one use captured a parameter from a nested function and
\* another resolved a local of its own function, which stays uncaptured.
C12_Witness ==
    /\ stack = <<>>
    /\ \E e1, e2 \in DOMAIN resolved_symbol_table :
         LET r1 == resolved_symbol_table[e1]
             r2 == resolved_symbol_table[e2]
         IN /\ symbols[r1.symbol].is_captured
            /\ hist_decl[r1.symbol].kind = "FnParam"
            /\ ~r2.is_global /\ ~r2.is_upvalue
            /\ ~symbols[r2.symbol].is_captured

\* C13: while the body of a named function is walked its Symbol has an empty
\* upvalue list, and a lambda has no declaration-table entry; when the body
\* ends the Symbol gets the in-progress list of the function, which started
\* empty and only grew by appends; no other step changes a Symbol's list.
C13_UpvaluesSetOnce ==
    [][/\ \A k \in 1..Len(stack) :
            /\ stack[k].kind = "FnDeclaration"
                 => symbols[FunctionSymbol(stack[k])].upvalues = <<>>
            /\ stack[k].kind = "Lambda"
                 => stack[k].stmt \notin DOMAIN symbol_table
       /\ (Leaving /\ IsFunctionFrame(Last(stack)))
            => /\ Last(stack).stmt \in DOMAIN symbol_table'
               /\ symbols'[symbol_table'[Last(stack).stmt]].upvalues
                      = Last(function_upvalues)
       /\ \A s \in 1..Len(symbols) :
            (~(/\ Leaving
               /\ Last(stack).kind = "FnDeclaration"
               /\ s = FunctionSymbol(Last(stack))))
               => symbols'[s].upvalues = symbols[s].upvalues
       /\ \A k \in 1..Len(function_upvalues') :
            IF k <= Len(function_upvalues)
            THEN /\ Len(function_upvalues'[k]) >= Len(function_upvalues[k])
                 /\ SubSeq(function_upvalues'[k], 1, Len(function_upvalues[k]))
                        = function_upvalues[k]
            ELSE function_upvalues'[k] = <<>>]_vars

\* C13 witness: a finished named function whose Symbol carries the two
\* entries two uses appended during the walk of its body.
C13_Witness ==
    /\ stack = <<>>
    /\ \E s \in 1..Len(symbols) :
         /\ hist_decl[s].kind = "FnDeclaration"
         /\ Len(symbols[s].upvalues) = 2

\* C14: a ResolvedSymbol is never both global and upvalue, and is an upvalue
\* only if the resolution captured the symbol.
C14_ExactlyOneKind ==
    \A e \in DOMAIN resolved_symbol_table :
        LET rs == resolved_symbol_table[e]
        IN /\ ~(rs.is_global /\ rs.is_upvalue)
           /\ rs.is_upvalue => symbols[rs.symbol].is_captured

\* C15: resolve_builtin_vars appends one symbol per supplied builtin, in
\* the supplied order, at scope depth 0, without a statement, and leaves the
\* declaration table alone; afterwards every use that resolves to the k-th
\* builtin (from 0) is a global with offset k, wherever the use is.
C15_Builtins ==
    [][/\ \A idents \in BuiltinLists :
            ResolveBuiltinVars(idents)
               => /\ Len(symbols') = Len(symbols) + Len(idents)
                  /\ accessible_symbols'
                         = accessible_symbols
                              \o [k \in 1..Len(idents) |-> Len(symbols) + k]
                  /\ \A k \in 1..Len(idents) :
                       /\ symbols'[Len(symbols) + k].ident = idents[k]
                       /\ symbols'[Len(symbols) + k].scope_depth = 0
                       /\ symbols'[Len(symbols) + k].stmt = Null
                       /\ hist_decl'[Len(symbols) + k] = Decl("Builtin", 0, k - 1)
                  /\ symbol_table' = symbol_table
       /\ \A e \in NewUses :
            LET rs == resolved_symbol_table'[e]
            IN hist_decl[rs.symbol].kind = "Builtin"
               => /\ rs.is_global
                  /\ rs.offset = hist_decl[rs.symbol].slot]_vars

\* C15 witness: inside a function, a use has resolved to the second builtin.
C15_Witness ==
    /\ Level >= 1
    /\ \E e \in DOMAIN resolved_symbol_table :
         LET rs == resolved_symbol_table[e]
         IN /\ hist_decl[rs.symbol].kind = "Builtin"
            /\ hist_use[e].ident = "x"
            /\ rs.is_global
            /\ rs.offset = 1
    /\ Len(hist_use) = 1

\* C16: for every accessible symbol find_function_scope_depth of its scope
\* depth is the nesting level of the function in whose body it was declared,
\* and find_function_scope_depth of the current depth is the nesting level
\* of the innermost function being resolved.
C16_FunctionScopeDepth ==
    /\ \A i \in 1..Len(accessible_symbols) :
         find_function_scope_depth(Self, symbols[accessible_symbols[i]].scope_depth)
             = hist_decl[accessible_symbols[i]].level
    /\ find_function_scope_depth(Self, Last(function_scope_depths)) = Level

\* C16 witness: two functions deep with a block open, and a symbol declared
\* in a block of the outer function is accessible.
C16_Witness ==
    /\ Level = 2
    /\ ~NoScopeOpen
    /\ \E i \in 1..Len(accessible_symbols) :
         /\ hist_decl[accessible_symbols[i]].level = 1
         /\ symbols[accessible_symbols[i]].scope_depth = 2

\* The scope depths of the symbols of acc do not decrease along acc.
NonDecreasing(acc, syms) ==
    \A i, j \in 1..Len(acc) :
        i < j => syms[acc[i]].scope_depth <= syms[acc[j]].scope_depth

\* The length accessible_symbols had when the scope of the construct on top
\* of the stack was entered.
ScopeEntryLength ==
    Len(Last(hist_entry).accessible_symbols)
        + (IF Last(stack).kind = "FnDeclaration" THEN 1 ELSE 0)

\* C17: the scope depths of the accessible symbols are non-decreasing in list
\* order; what exit_scope keeps is the list truncated to the length it had
\* when the scope was entered; and a symbol keeps its position as long as it
\* is accessible.
C17_NonDecreasingDepths ==
    [][/\ NonDecreasing(accessible_symbols, symbols)
       /\ NonDecreasing(accessible_symbols', symbols')
       /\ (Leaving \/ IfToElse)
            => exit_scope(Self).accessible_symbols
                   = SubSeq(accessible_symbols, 1, ScopeEntryLength)
       /\ \A i \in 1..Len(accessible_symbols), j \in 1..Len(accessible_symbols') :
            accessible_symbols'[j] = accessible_symbols[i] => j = i]_vars

\* C17 witness: symbols of three different depths are accessible and an
\* earlier scope has already been truncated away.
C17_Witness ==
    /\ Len(symbols) > Len(accessible_symbols)
    /\ \E i, j, k \in 1..Len(accessible_symbols) :
         /\ symbols[accessible_symbols[i]].scope_depth = 0
         /\ symbols[accessible_symbols[j]].scope_depth = 1
         /\ symbols[accessible_symbols[k]].scope_depth = 2

\* What was recorded on entry to the innermost function or lambda.
InnermostFunctionEntry == hist_entry[FramePosition(Level)]

\* The number of symbols accessible_symbols held when the top-level
\* statements began: the builtins.
TopLevelBase == Cardinality({s \in 1..Len(symbols) : hist_decl[s].kind = "Builtin"})

\* After a named function or a lambda, function_scope_depths, the length of
\* function_upvalues and current_func_offset are what they were before it.
Balanced ==
    (Leaving /\ IsFunctionFrame(Last(stack)))
       => /\ function_scope_depths' = Last(hist_entry).function_scope_depths
          /\ Len(function_upvalues') = Last(hist_entry).function_upvalues
          /\ current_func_offset' = Last(hist_entry).current_func_offset

\* C18, as claimed: the stacks are balanced, and whenever resolve_symbol runs
\* the two stacks have the same length and current_func_offset is the length
\* accessible_symbols had when the innermost function's body was entered,
\* the top-level function included.
C18_BalancedStacksAsClaimed ==
    [][/\ Balanced
       /\ UsedNow
            => /\ Len(function_scope_depths) = Len(function_upvalues)
               /\ current_func_offset
                      = IF Level = 0 THEN TopLevelBase
                        ELSE InnermostFunctionEntry.base]_vars

\* C18, amended: as above inside a function or lambda, where the length is
\* taken after the function's own symbol and before its parameters; at the
\* top level current_func_offset is 0 whatever accessible_symbols held when
\* the top-level statements began.
C18_BalancedStacks ==
    [][/\ Balanced
       /\ UsedNow
            => /\ Len(function_scope_depths) = Len(function_upvalues)
               /\ current_func_offset
                      = IF Level = 0 THEN 0
                        ELSE InnermostFunctionEntry.base]_vars

\* C18 witness: with a builtin registered, a function with a parameter has
\* been visited, a use in it resolved to a local of it, and the Resolver is
\* back at the top level.
C18_Witness ==
    /\ stack = <<>>
    /\ TopLevelBase >= 1
    /\ function_scope_depths = <<0>>
    /\ Len(function_upvalues) = 1
    /\ current_func_offset = 0
    /\ \E e \in DOMAIN resolved_symbol_table :
         LET rs == resolved_symbol_table[e]
         IN /\ ~rs.is_global /\ ~rs.is_upvalue
            /\ hist_decl[rs.symbol].kind = "FnParam"

\* What resolve_symbol indexes and subtracts for a use of ident is in range:
\* the levels the threading loop writes are indices of function_upvalues,
\* the current function's list is not empty when `len - 1` is taken, and
\* `i - current_func_offset` is not negative.
resolve_symbol_in_range(r, ident) ==
    LET pos == scan_accessible_symbols(r, ident)
    IN pos = 0
       \/ LET i == pos - 1
              symbol == r.symbols[r.accessible_symbols[pos]]
              top == Last(r.function_scope_depths)
              lo == find_function_scope_depth(r, symbol.scope_depth) + 1
              hi == find_function_scope_depth(r, top)
          IN IF lo = 1 THEN TRUE
             ELSE IF in_same_function_scope(r, symbol.scope_depth, top)
                  THEN i - r.current_func_offset >= 0
                  ELSE /\ \A level \in lo..hi : level <= Len(r.function_upvalues) - 1
                       /\ Len(Last(thread_upvalue(r.function_upvalues, symbol, i,
                                                  lo, hi, 0))) >= 1

\* C19: whenever resolve_symbol runs, its indices and subtractions are in
\* range, and every offset it returns is a natural number.
C19_NoIndexError ==
    [][/\ UsedNow => resolve_symbol_in_range(Self, UsedName)
       /\ \A e \in NewUses : resolved_symbol_table'[e].offset >= 0]_vars

\* C19 witness: three functions deep, a use has threaded an upvalue through
\* the lists of the two inner functions.
C19_Witness ==
    /\ Level = 3
    /\ Len(function_upvalues) = 4
    /\ Len(function_upvalues[3]) = 1
    /\ Len(function_upvalues[4]) = 1
    /\ \E e \in DOMAIN resolved_symbol_table :
         /\ resolved_symbol_table[e].is_upvalue
         /\ ~resolved_symbol_table[e].is_global

\* C20: every use that captures a symbol appends one new entry to the list
\* of each function level from the one inside the declaring function down to
\* the current one, and resolves to the index of the entry just appended to
\* the current function's list, which no earlier use of the body has.
C20_NoSharedUpvalues ==
    [][\A e \in NewUses :
         LET rs == resolved_symbol_table'[e]
             d == hist_decl[rs.symbol]
         IN (d.level >= 1 /\ d.level < Level)
            => /\ \A k \in (d.level + 1)..Level : AppendedOne(k)
               /\ rs.offset = Len(UpvaluesOf(Level))]_vars

\* C20 witness: two uses of the same captured symbol in one function body
\* have given the function's list two entries and the offsets 0 and 1.
C20_Witness ==
    /\ Level = 2
    /\ Len(Last(function_upvalues)) = 2
    /\ DOMAIN resolved_symbol_table = {1, 2}
    /\ resolved_symbol_table[1].symbol = resolved_symbol_table[2].symbol
    /\ resolved_symbol_table[1].offset = 0
    /\ resolved_symbol_table[2].offset = 1
    /\ symbols[resolved_symbol_table[1].symbol].is_captured

\* The step is a let-declaration that is no lambda's: it declares the
\* symbol LetSymbol.
LetStep ==
    /\ Len(symbols') = Len(symbols) + 1
    /\ hist_decl'[Len(symbols')].kind = "Let"
    /\ stack' = stack
LetSymbol == Len(symbols')

\* C21: a use in the initializer of a let-declaration never resolves to the
\* symbol the statement declares: it resolves to the latest declaration of
\* the name accessible before the statement, or is reported unresolved if
\* there is none; the declared symbol is accessible, last, after the
\* statement, so that the uses that follow resolve to it.
C21_InitializerFirst ==
    [][/\ LetStep
            => /\ accessible_symbols' = Append(accessible_symbols, LetSymbol)
               /\ \A e \in NewUses : resolved_symbol_table'[e].symbol # LetSymbol
       /\ UsedNow
            => IF Declarations(UsedName) = {}
               THEN /\ NewUses = {}
                    /\ errors' = Append(errors,
                                     SyntaxError("cannot resolve symbol", UsedName))
               ELSE /\ NewUses = {UsedExpr}
                    /\ resolved_symbol_table'[UsedExpr].symbol
                           = accessible_symbols[MaxOf(Declarations(UsedName))]
                    /\ errors' = errors]_vars

\* C21 witness: of two let-declarations of x with initializer x, the first
\* found no x and the second resolved its initializer to the first x.
C21_Witness ==
    /\ Len(symbols) = 2
    /\ accessible_symbols = <<1, 2>>
    /\ hist_decl[1].kind = "Let" /\ hist_decl[2].kind = "Let"
    /\ hist_use = <<[ident |-> "x", unit |-> 1], [ident |-> "x", unit |-> 1]>>
    /\ errors = <<SyntaxError("cannot resolve symbol", "x")>>
    /\ DOMAIN resolved_symbol_table = {2}
    /\ resolved_symbol_table[2].symbol = 1

\* C22: code and lines always have the same length and the assertions of
\* write_chunk never fail; the n-th add_constant (from 0) stores its value at
\* index n and returns n for n < 256; the 257th does not return but aborts.
C22_ChunkBookkeeping ==
    [][/\ Len(code) = Len(lines)
       /\ Len(code') = Len(lines')
       /\ Len(code') > Len(code)
            => /\ Len(code') = Len(code) + 1
               /\ SubSeq(code', 1, Len(code)) = code
               /\ SubSeq(lines', 1, Len(lines)) = lines
       /\ panic' # "assertion failed"
       /\ Len(constants') > Len(constants)
            => LET n == Len(constants)
               IN /\ Len(constants') = n + 1
                  /\ SubSeq(constants', 1, n) = constants
                  /\ IF n < 256
                     THEN /\ panic' = ""
                          /\ returned' = <<n>>
                     ELSE /\ panic' # ""
                          /\ returned' = returned]_vars

\* C22 witness: with bytes written, 256 constants were added and indexed
\* 0 to 255, and the 257th add_constant aborted.
C22_Witness ==
    /\ Len(code) >= 1
    /\ Len(constants) = 257
    /\ constants[2] = 1
    /\ returned = <<255>>
    /\ panic = "not yet implemented: load constant wide"

====
